---- MODULE Spec2Model ----
(***************************************************************************)
(* A state-machine model of the social-burden pipeline:                    *)
(*   src/social_burden_tool/social_burden.py  (SocialBurdenCalculator)     *)
(*   src/social_burden_tool/load_layers.py    (PopulationGroupInfo,        *)
(*                                             FacilityInfo, ServiceLevels)*)
(*                                                                         *)
(* Floating-point numbers are modelled as exact rationals <<num, den>>     *)
(* with den > 0, extended by the IEEE specials <<1, 0>> (+inf),            *)
(* <<-1, 0>> (-inf) and <<0, 0>> (NaN), which numpy produces instead of    *)
(* raising on a division by zero.  Rounding is not modelled.               *)
(***************************************************************************)
EXTENDS Integers, Sequences, FiniteSets, TLC

VARIABLES
    population_info,   \* the PopulationGroupInfo object handed to __init__
    facility_info,     \* the FacilityInfo object handed to __init__
    service_levels,    \* the ServiceLevels object handed to __init__
    I_matrix,          \* self.I_matrix (None or N x L)
    G_matrix,          \* self.G_matrix
    E_matrix,          \* self.E_matrix
    B_matrix,          \* self.B_matrix
    csv,               \* what save_results last wrote to output_path
    burden_ok,         \* history: some compute_social_burden call has returned
    ret                \* the last call: its name, arguments, outcome and
                       \* value, the matrices that were set when it began
                       \* and the matrices it assigned, in order

vars == <<population_info, facility_info, service_levels,
          I_matrix, G_matrix, E_matrix, B_matrix, csv, burden_ok, ret>>

----------------------------------------------------------------------------
(* Bounds of the model.                                                    *)

MaxN == 2          \* population groups: 1..MaxN
MaxL == 2          \* facilities: 1..MaxL
Step == 20         \* metres between neighbouring points of the layout

None == << >>      \* Python's None, for a matrix or a table not yet set

----------------------------------------------------------------------------
(* Floats.                                                                 *)

Abs(x) == IF x < 0 THEN -x ELSE x
Sign(x) == IF x < 0 THEN -1 ELSE IF x = 0 THEN 0 ELSE 1

\* The greatest common divisor of a >= 0 and b >= 0 (Euclid).
RECURSIVE GCD(_, _)
GCD(a, b) == IF b = 0 THEN a ELSE GCD(b, a % b)

\* The float with value n/d, d # 0, in lowest terms.
Rat(n, d) ==
    LET g == GCD(Abs(n), Abs(d))
    IN  <<Sign(d) * (n \div g), Abs(d) \div g>>

NaN == <<0, 0>>
Inf == <<1, 0>>
Zero == <<0, 1>>
One == <<1, 1>>

IsNaN(x) == x = NaN
IsInf(x) == x[2] = 0 /\ x[1] # 0
IsFinite(x) == x[2] > 0

FAdd(a, b) ==
    IF IsNaN(a) \/ IsNaN(b) THEN NaN
    ELSE IF IsInf(a) /\ IsInf(b) THEN (IF a = b THEN a ELSE NaN)
    ELSE IF IsInf(a) THEN a
    ELSE IF IsInf(b) THEN b
    ELSE Rat(a[1] * b[2] + b[1] * a[2], a[2] * b[2])

FMul(a, b) ==
    IF IsNaN(a) \/ IsNaN(b) THEN NaN
    ELSE IF IsInf(a) \/ IsInf(b)
         THEN (IF a[1] = 0 \/ b[1] = 0 THEN NaN
               ELSE <<Sign(a[1]) * Sign(b[1]), 0>>)
    ELSE Rat(a[1] * b[1], a[2] * b[2])

\* numpy's float division: a zero divisor gives inf or nan, never an error.
FDiv(a, b) ==
    IF IsNaN(a) \/ IsNaN(b) THEN NaN
    ELSE IF IsInf(a) THEN (IF IsInf(b) THEN NaN
                           ELSE <<Sign(a[1]) * (IF b[1] < 0 THEN -1 ELSE 1), 0>>)
    ELSE IF IsInf(b) THEN Zero
    ELSE IF b[1] = 0 THEN (IF a[1] = 0 THEN NaN ELSE <<Sign(a[1]), 0>>)
    ELSE Rat(a[1] * b[2], a[2] * b[1])

FGt0(a) == ~IsNaN(a) /\ a[1] > 0

\* The sum of a sequence of floats, left to right.
FSum(s) ==
    LET acc[k \in 0..Len(s)] == IF k = 0 THEN Zero ELSE FAdd(acc[k - 1], s[k])
    IN  acc[Len(s)]

----------------------------------------------------------------------------
(* Labelled tables (pandas DataFrame): row labels, column labels, data.    *)

Has(s, x) == \E i \in DOMAIN s : s[i] = x
Pos(s, x) == CHOOSE i \in DOMAIN s : s[i] = x

Frame(index, columns, data) ==
    [index |-> index, columns |-> columns, data |-> data]

\* DataFrame.T
FrameT(f) ==
    Frame(f.columns, f.index,
          [c \in DOMAIN f.columns |-> [r \in DOMAIN f.index |-> f.data[r][c]]])

\* DataFrame.iloc[:, k:] (k counted from zero)
ILocColsFrom(f, k) ==
    Frame(f.index,
          SubSeq(f.columns, k + 1, Len(f.columns)),
          [r \in DOMAIN f.index |-> SubSeq(f.data[r], k + 1, Len(f.columns))])

\* DataFrame[c].values: the column labelled c
FrameColumn(f, c) == [r \in DOMAIN f.index |-> f.data[r][Pos(f.columns, c)]]

\* numpy's .T on a 2-D array given as a non-empty sequence of equal rows
ArrayT(a) == [j \in DOMAIN a[1] |-> [i \in DOMAIN a |-> a[i][j]]]

----------------------------------------------------------------------------
(* ServiceLevels (load_layers.py).                                         *)

DefaultZeroDistanceEffort == Rat(2, 5)     \* 0.4
DefaultEffortPerFoot == Rat(1, 20)         \* 0.05
HighEffort == Rat(1000000, 1)              \* 1e6

ZDE == "Zero Distance Effort"
EPF == "Effort Per Foot"

\* The service-level CSV after set_index("Facility Type"): one row per
\* facility type, the two effort columns, then one column per category.
ServiceLevelTables ==
    { Frame(<<"Library", "Depot">>, <<ZDE, EPF, "General">>,
            << <<Rat(2, 5), Rat(1, 20), Rat(1, 1)>>,
               <<Rat(0, 1), Rat(1, 10), Rat(2, 1)>> >>),
      Frame(<<"Library", "Depot">>, <<ZDE, EPF, "General", "Medical">>,
            << <<Rat(2, 5), Rat(1, 20), Rat(1, 1), Rat(2, 1)>>,
               <<Rat(0, 1), Rat(1, 10), Rat(2, 1), Rat(0, 1)>> >>) }

FacilityTypes == {"Library", "Depot", "Kiosk"}

\* dict built by Series.to_dict(): facility type -> value of column c
ToDict(df, c) ==
    [t \in {df.index[i] : i \in DOMAIN df.index} |-> FrameColumn(df, c)[Pos(df.index, t)]]

\* ServiceLevels.__init__: the attributes J_l, M_l and service_levels
\* computed from the table.  `subscriptable` says whether the object also
\* answers obj[ft] and obj.index by its service_levels frame; the class as
\* written defines neither.
ServiceLevels_init(df, subscriptable) ==
    [service_levels_df |-> df,
     J_l |-> ToDict(df, ZDE),
     M_l |-> ToDict(df, EPF),
     service_levels |-> FrameT(ILocColsFrom(df, 2)),
     subscriptable |-> subscriptable]

\* dict.get(key, default)
DictGet(d, k, default) == IF k \in DOMAIN d THEN d[k] ELSE default

\* (variant: the default of the other lookup)
get_zero_distance_effort_other_default(sl, facility_type) ==
    DictGet(sl.J_l, facility_type, DefaultEffortPerFoot)

get_zero_distance_effort(sl, facility_type) ==
    DictGet(sl.J_l, facility_type, DefaultZeroDistanceEffort)

get_effort_per_foot(sl, facility_type) ==
    DictGet(sl.M_l, facility_type, DefaultEffortPerFoot)

\* DataFrame.loc[r, c]: KeyError unless r is a row label and c a column label
Loc(f, r, c) ==
    IF Has(f.index, r) /\ Has(f.columns, c)
    THEN [err |-> "", value |-> <<f.data[Pos(f.index, r)][Pos(f.columns, c)]>>]
    ELSE [err |-> "KeyError", value |-> << >>]

get_service_level(sl, facility_type, population_group) ==
    Loc(sl.service_levels, facility_type, population_group)

----------------------------------------------------------------------------
(* PopulationGroupInfo and FacilityInfo (load_layers.py).                  *)

AbilityScores == {0, 1, 2}
AbilityColumns == <<"Ability_1", "Ability_2">>

\* The ability CSV: one row per population group, in layer order, with the
\* row of group `dup` repeated at the end when dup # 0 (a duplicated key).
AbilityData(a, dup) ==
    LET row(k) == [GISJOIN |-> k, Ability_1 |-> Rat(a[k], 1),
                   Ability_2 |-> Rat(a[k] + 1, 1)]
        base == [k \in DOMAIN a |-> row(k)]
    IN  IF dup = 0 THEN base ELSE Append(base, row(dup))

\* The population layer: group n has key n and lies n - 1 steps up the
\* meridian.
PopulationLayer(n) == [k \in 1..n |-> [GISJOIN |-> k, pos |-> k - 1]]

\* The facility layer: facility l lies l - 1 steps up the meridian.
FacilityLayer(types) ==
    [l \in DOMAIN types |-> [Facility_Type |-> types[l], pos |-> l - 1]]

\* PopulationGroupInfo.load_layer: with gdf_layer never assigned the first
\* test raises AttributeError; with it assigned the method returns
\* self.layer and changes nothing.
load_layer(p) ==
    IF p.gdf_layer = "unset" THEN [p |-> p, err |-> "AttributeError"]
    ELSE [p |-> p, err |-> ""]

\* DataFrame.merge(right[["GISJOIN", column]], on="GISJOIN", how="left"):
\* for each left row in order, one row per matching right row in the
\* right's order, or a single row holding NaN when none matches.
LeftMerge(left, right, column) ==
    LET rowsOf(k) ==
            LET match == SelectSeq(right, LAMBDA r : r.GISJOIN = k)
            IN  IF match = << >>
                THEN << [GISJOIN |-> k, value |-> NaN] >>
                ELSE [i \in DOMAIN match |->
                         [GISJOIN |-> k, value |-> match[i][column]]]
        acc[j \in 0..Len(left)] ==
            IF j = 0 THEN << >> ELSE acc[j - 1] \o rowsOf(left[j].GISJOIN)
    IN  acc[Len(left)]

\* merge_data once self.layer has been looked at (lines 98-118)
merge_loaded(p, column) ==
    IF p.layer = "None"
    THEN [p |-> p, err |-> "AttributeError", value |-> None]
    ELSE IF ~Has(AbilityColumns, column)
    THEN [p |-> p, err |-> "KeyError", value |-> None]
    ELSE [p |-> [p EXCEPT !.merged_data =
                    <<column, LeftMerge(p.shapefile, p.ability_data, column)>>],
          err |-> "",
          value |-> <<column, LeftMerge(p.shapefile, p.ability_data, column)>>]

\* PopulationGroupInfo.merge_data(column)
merge_data(p, column) ==
    IF p.merged_data # None
    THEN [p |-> p, err |-> "", value |-> p.merged_data]
    ELSE IF p.layer = "None" /\ load_layer(p).err # ""
    THEN [p |-> p, err |-> load_layer(p).err, value |-> None]
    ELSE merge_loaded(p, column)

----------------------------------------------------------------------------
(* SocialBurdenCalculator (social_burden.py).  Each run_* operator is the  *)
(* body of one method, as a function of the calculator's state st:         *)
(* the four matrices, the population provider (merge_data caches in it),   *)
(* the error raised (if any) and the matrices assigned so far.             *)

Raise(st, e) == [st EXCEPT !.err = e]

\* haversine_distances(...) * 6371000 for points of one meridian: the
\* great-circle distance is the separation along it.
D_matrix(pop_gdf, fac_gdf) ==
    [n \in DOMAIN pop_gdf |->
        [l \in DOMAIN fac_gdf |->
            Rat(Step * Abs(pop_gdf[n].pos - fac_gdf[l].pos), 1)]]

\* np.dot of two 2-D arrays with matching inner dimension
Dot(a, b) ==
    [i \in DOMAIN a |->
        [j \in DOMAIN b[1] |->
            FSum([k \in DOMAIN b |-> FMul(a[i][k], b[k][j])])]]

\* I_{n,l} = J_l + D_{n,l} * M_l
PairwiseEffort(D, J, M) ==
    [n \in DOMAIN D |-> [l \in DOMAIN D[n] |-> FAdd(J[l], FMul(D[n][l], M[l]))]]

\* J_l_values and M_l_values: one entry per facility of the layer
J_l_values(fac_gdf) ==
    [l \in DOMAIN fac_gdf |->
        get_zero_distance_effort(service_levels, fac_gdf[l].Facility_Type)]

M_l_values(fac_gdf) ==
    [l \in DOMAIN fac_gdf |->
        get_effort_per_foot(service_levels, fac_gdf[l].Facility_Type)]

run_compute_pairwise_effort(st) ==
    IF st.pop.gdf_layer = "unset" THEN Raise(st, "AttributeError")
    ELSE [st EXCEPT
            !.I = PairwiseEffort(
                      D_matrix(st.pop.shapefile, facility_info.gdf_layer),
                      J_l_values(facility_info.gdf_layer),
                      M_l_values(facility_info.gdf_layer)),
            !.assigned = Append(@, "I")]

\* np.where(I > 0, 1 / I, 0)
Accessibility(x) == IF FGt0(x) THEN FDiv(One, x) ELSE Zero

AccessibilityMatrix(I) ==
    [n \in DOMAIN I |-> [l \in DOMAIN I[n] |-> Accessibility(I[n][l])]]

\* compute_service_accessibility once I_matrix is there (line 55)
accessibility_stage(s1) ==
    IF s1.err # "" THEN s1
    ELSE [s1 EXCEPT !.G = AccessibilityMatrix(s1.I),
                    !.assigned = Append(@, "G")]

\* (variant: the pairwise effort is derived whether or not it is cached)
run_compute_service_accessibility_always(st) ==
    accessibility_stage(run_compute_pairwise_effort(st))

\* (variant: the pairwise effort derived on demand is not kept)
run_compute_service_accessibility_local(st) ==
    [accessibility_stage(IF st.I = None THEN run_compute_pairwise_effort(st)
                         ELSE st) EXCEPT !.I = st.I]

run_compute_service_accessibility(st) ==
    accessibility_stage(IF st.I = None THEN run_compute_pairwise_effort(st)
                        ELSE st)

\* S_lm = np.array([self.service_levels[ft].values for ft in fac_types]).T
ServiceLevelArray(sl, fac_gdf) ==
    ArrayT([l \in DOMAIN fac_gdf |->
               FrameColumn(sl.service_levels, fac_gdf[l].Facility_Type)])

\* weighted_service[weighted_service == 0] = np.nan
ZeroToNaN(x) == IF x = Zero THEN NaN ELSE x

Reciprocal(x) == FDiv(One, x)

\* np.nan_to_num(x, nan=1e6); a reciprocal of a finite non-zero number is
\* finite, so the infinities nan_to_num would also replace do not occur.
NanToNum(x) == IF IsNaN(x) THEN HighEffort ELSE x

EffortOf(x) == NanToNum(Reciprocal(ZeroToNaN(x)))

EffortMatrixOf(W) ==
    [n \in DOMAIN W |-> [m \in DOMAIN W[n] |-> EffortOf(W[n][m])]]

\* lines 70-79, given G and S_lm; np.dot needs the inner dimensions equal
effort_product(s1, S_lm) ==
    IF Len(s1.G[1]) # Len(S_lm) THEN Raise(s1, "ValueError")
    ELSE [s1 EXCEPT !.E = EffortMatrixOf(Dot(s1.G, S_lm)),
                    !.assigned = Append(@, "E")]

\* compute_effort_matrix once G_matrix is there (lines 66-79)
effort_stage(s1, fac_gdf) ==
    IF s1.err # "" THEN s1
    ELSE IF ~service_levels.subscriptable THEN Raise(s1, "TypeError")
    ELSE IF \E l \in DOMAIN fac_gdf :
               ~Has(service_levels.service_levels.columns, fac_gdf[l].Facility_Type)
         THEN Raise(s1, "KeyError")
    ELSE effort_product(s1, ServiceLevelArray(service_levels, fac_gdf))

run_compute_effort_matrix(st) ==
    effort_stage(IF st.G = None THEN run_compute_service_accessibility(st)
                 ELSE st,
                 facility_info.gdf_layer)

\* E (n x m) / ability_values (k x 1) under numpy broadcasting
CanBroadcast(E, a) == Len(E) = Len(a) \/ Len(E) = 1 \/ Len(a) = 1

BroadcastDivide(E, a) ==
    [i \in (IF Len(E) >= Len(a) THEN DOMAIN E ELSE DOMAIN a) |->
        [j \in DOMAIN E[1] |->
            FDiv((IF Len(E) = 1 THEN E[1] ELSE E[i])[j],
                 IF Len(a) = 1 THEN a[1] ELSE a[i])]]

\* line 98: pd.DataFrame(self.B_matrix, columns=self.service_levels.index)
burden_table(s3, index) ==
    IF ~service_levels.subscriptable THEN Raise(s3, "AttributeError")
    ELSE IF Len(s3.B[1]) # Len(index) THEN Raise(s3, "ValueError")
    ELSE [s3 EXCEPT !.value = <<index, s3.B>>]

\* lines 91-98, given the ability column of the merged table
burden_divide(s2, ability_values) ==
    IF ~CanBroadcast(s2.E, ability_values) THEN Raise(s2, "ValueError")
    ELSE burden_table([s2 EXCEPT !.B = BroadcastDivide(s2.E, ability_values),
                                 !.assigned = Append(@, "B")],
                      service_levels.service_levels.index)

\* lines 90-91, given what merge_data did
burden_merged(s1, md, ability_column) ==
    IF md.err # "" THEN Raise([s1 EXCEPT !.pop = md.p], md.err)
    ELSE IF md.value[1] # ability_column
    THEN Raise([s1 EXCEPT !.pop = md.p], "KeyError")
    ELSE burden_divide([s1 EXCEPT !.pop = md.p],
                       [i \in DOMAIN md.value[2] |-> md.value[2][i].value])

\* compute_social_burden once E_matrix is there (lines 90-98)
burden_stage(s1, ability_column) ==
    IF s1.err # "" THEN s1
    ELSE burden_merged(s1, merge_data(s1.pop, ability_column), ability_column)

run_compute_social_burden(st, ability_column) ==
    burden_stage(IF st.E = None THEN run_compute_effort_matrix(st) ELSE st,
                 ability_column)

\* (variant: no test of B_matrix)
run_save_results_unchecked(st) == [st EXCEPT !.value = st.B]

run_save_results(st) ==
    IF st.B = None THEN Raise(st, "ValueError")
    ELSE [st EXCEPT !.value = st.B]

----------------------------------------------------------------------------
(* The state machine.                                                      *)

\* The objects a calculator is built on: <<layer, gdf_layer>> of the
\* PopulationGroupInfo and whether the ServiceLevels object is
\* subscriptable.  The first is what the classes as written give:
\* PopulationGroupInfo.__init__ sets layer = None and never assigns
\* gdf_layer, and ServiceLevels defines neither __getitem__ nor index.
\* In the second the population object has its layer under both
\* attributes; in the third the ServiceLevels object moreover answers
\* obj[ft] and obj.index by its service_levels frame.
Providers ==
    { <<"None", "unset", FALSE>>, <<"loaded", "loaded", FALSE>>,
      <<"loaded", "loaded", TRUE>> }

Duplicates == {0, 1}

NonEmptySeqs(S, n) == UNION { [1..k -> S] : k \in 1..n }

NoCall == [op |-> "__init__", arg |-> << >>, status |-> "ok",
           value |-> << >>, cached |-> {}, assigned |-> << >>]

\* SocialBurdenCalculator.__init__ on the given providers
Constructed(n, a, dup, types, df, pv) ==
    /\ population_info = [layer |-> pv[1], gdf_layer |-> pv[2],
                          shapefile |-> PopulationLayer(n),
                          ability_data |-> AbilityData(a, dup),
                          merged_data |-> None]
    /\ facility_info = [gdf_layer |-> FacilityLayer(types)]
    /\ service_levels = ServiceLevels_init(df, pv[3])
    /\ I_matrix = None
    /\ G_matrix = None
    /\ E_matrix = None
    /\ B_matrix = None
    /\ csv = None
    /\ burden_ok = FALSE
    /\ ret = NoCall

Init ==
    \E n \in 1..MaxN, types \in NonEmptySeqs(FacilityTypes, MaxL),
       df \in ServiceLevelTables, pv \in Providers :
      \E a \in [1..n -> AbilityScores], dup \in Duplicates :
        Constructed(n, a, dup, types, df, pv)

\* The names of the matrices that are set
Cached ==
    {x \in {"I", "G", "E", "B"} :
        CASE x = "I" -> I_matrix # None
          [] x = "G" -> G_matrix # None
          [] x = "E" -> E_matrix # None
          [] x = "B" -> B_matrix # None}

Self ==
    [I |-> I_matrix, G |-> G_matrix, E |-> E_matrix, B |-> B_matrix,
     pop |-> population_info, err |-> "", value |-> << >>, assigned |-> << >>]

\* The effect of a calculator method that ended in state st.
Finish(op, arg, st) ==
    /\ I_matrix' = st.I
    /\ G_matrix' = st.G
    /\ E_matrix' = st.E
    /\ B_matrix' = st.B
    /\ population_info' = st.pop
    /\ ret' = [op |-> op, arg |-> arg,
               status |-> IF st.err = "" THEN "ok" ELSE st.err,
               value |-> st.value, cached |-> Cached,
               assigned |-> st.assigned]
    /\ UNCHANGED <<facility_info, service_levels>>

compute_pairwise_effort ==
    /\ Finish("compute_pairwise_effort", << >>, run_compute_pairwise_effort(Self))
    /\ UNCHANGED <<csv, burden_ok>>

compute_service_accessibility ==
    /\ Finish("compute_service_accessibility", << >>,
              run_compute_service_accessibility(Self))
    /\ UNCHANGED <<csv, burden_ok>>

compute_effort_matrix ==
    /\ Finish("compute_effort_matrix", << >>, run_compute_effort_matrix(Self))
    /\ UNCHANGED <<csv, burden_ok>>

CallColumns == {"Ability_1", "Ability_2", "Ability_9"}

compute_social_burden ==
    \E ability_column \in CallColumns :
      /\ Finish("compute_social_burden", <<ability_column>>,
                run_compute_social_burden(Self, ability_column))
      /\ burden_ok' = (burden_ok
                         \/ run_compute_social_burden(Self, ability_column).err = "")
      /\ UNCHANGED csv

\* to_csv writes the matrix; a call that raises writes nothing
save_results ==
    /\ Finish("save_results", << >>, [run_save_results(Self) EXCEPT !.value = << >>])
    /\ csv' = IF run_save_results(Self).err = "" THEN run_save_results(Self).value
              ELSE csv
    /\ UNCHANGED burden_ok

\* A call of a ServiceLevels lookup: the calculator is not touched.
Lookup(op, arg, r) ==
    /\ ret' = [op |-> op, arg |-> arg,
               status |-> IF r.err = "" THEN "ok" ELSE r.err,
               value |-> r.value, cached |-> Cached, assigned |-> << >>]
    /\ UNCHANGED <<population_info, facility_info, service_levels,
                   I_matrix, G_matrix, E_matrix, B_matrix, csv, burden_ok>>

Labels == FacilityTypes \cup {"General", "Medical"}

call_get_zero_distance_effort ==
    \E ft \in FacilityTypes :
      Lookup("get_zero_distance_effort", <<ft>>,
             [err |-> "", value |-> <<get_zero_distance_effort(service_levels, ft)>>])

call_get_effort_per_foot ==
    \E ft \in FacilityTypes :
      Lookup("get_effort_per_foot", <<ft>>,
             [err |-> "", value |-> <<get_effort_per_foot(service_levels, ft)>>])

call_get_service_level ==
    \E ft \in Labels, pg \in Labels :
      Lookup("get_service_level", <<ft, pg>>,
             get_service_level(service_levels, ft, pg))

Next ==
    \/ compute_pairwise_effort
    \/ compute_service_accessibility
    \/ compute_effort_matrix
    \/ compute_social_burden
    \/ save_results

Spec == Init /\ [][Next]_vars

\* The Service Level Table's lookups and the stage that uses them, on
\* calculators whose ability data is not in question.
InitLookup ==
    \E n \in 1..MaxN, types \in NonEmptySeqs(FacilityTypes, MaxL),
       df \in ServiceLevelTables, pv \in Providers :
      Constructed(n, [k \in 1..n |-> 1], 0, types, df, pv)

NextLookup ==
    \/ call_get_zero_distance_effort
    \/ call_get_effort_per_foot
    \/ call_get_service_level
    \/ compute_pairwise_effort

SpecLookup == InitLookup /\ [][NextLookup]_vars

----------------------------------------------------------------------------
(* The quantities the claims speak of, from the inputs alone.              *)

NGroups == Len(population_info.shapefile)
NFacilities == Len(facility_info.gdf_layer)
Table == service_levels.service_levels_df
Categories == SubSeq(Table.columns, 3, Len(Table.columns))
NCategories == Len(Categories)

TypeOf(l) == facility_info.gdf_layer[l].Facility_Type
InTable(t) == Has(Table.index, t)
AllTypesInTable == \A l \in 1..NFacilities : InTable(TypeOf(l))
TableCell(t, c) == Table.data[Pos(Table.index, t)][Pos(Table.columns, c)]

J_of(l) == IF InTable(TypeOf(l)) THEN TableCell(TypeOf(l), ZDE) ELSE Rat(2, 5)
M_of(l) == IF InTable(TypeOf(l)) THEN TableCell(TypeOf(l), EPF) ELSE Rat(1, 20)
D_of(n, l) == D_matrix(population_info.shapefile, facility_info.gdf_layer)[n][l]
I_of(n, l) == FAdd(J_of(l), FMul(D_of(n, l), M_of(l)))
G_of(n, l) == IF FGt0(I_of(n, l)) THEN FDiv(One, I_of(n, l)) ELSE Zero
S_of(l, m) == TableCell(TypeOf(l), Categories[m])
W_of(n, m) == FSum([l \in 1..NFacilities |-> FMul(G_of(n, l), S_of(l, m))])
E_of(n, m) == IF W_of(n, m) = Zero THEN HighEffort ELSE FDiv(One, W_of(n, m))

I_expected == [n \in 1..NGroups |-> [l \in 1..NFacilities |-> I_of(n, l)]]
E_expected == [n \in 1..NGroups |-> [m \in 1..NCategories |-> E_of(n, m)]]

\* A_n: the score of group n in the given column of the ability data
UniqueAbilityKeys == Len(population_info.ability_data) = NGroups
A_of(n, column) ==
    LET rows == SelectSeq(population_info.ability_data,
                          LAMBDA r : r.GISJOIN = population_info.shapefile[n].GISJOIN)
    IN  rows[1][column]
B_expected(column) ==
    [n \in 1..NGroups |->
        [m \in 1..NCategories |-> FDiv(E_of(n, m), A_of(n, column))]]

Entries(a) == {a[i][j] : i \in DOMAIN a, j \in 1..Len(a[1])}

IsCall(op) == ret.op = op
Returned == ret.status = "ok"
\* the last call began on a calculator with no matrix set
BeganFresh == ret.cached = {}

----------------------------------------------------------------------------
(* Claims.                                                                 *)

\* C1: on a fresh calculator, compute_social_burden(ability_column)
\* completes and returns B[n][m] = E[n][m] / A[n] with E = 1 / W,
\* W = sum_l G * S, G = 1 / I, I = J + D * M, whenever J_l > 0, W > 0 and
\* A[n] > 0.
C1_Pre(column) ==
    /\ Has(AbilityColumns, column)
    /\ UniqueAbilityKeys
    /\ AllTypesInTable
    /\ \A l \in 1..NFacilities : FGt0(J_of(l))
    /\ \A n \in 1..NGroups : \A m \in 1..NCategories : FGt0(W_of(n, m))
    /\ \A n \in 1..NGroups : FGt0(A_of(n, column))

C1_EndToEnd ==
    (IsCall("compute_social_burden") /\ BeganFresh /\ C1_Pre(ret.arg[1]))
        => /\ Returned
           /\ ret.value = <<Categories, B_expected(ret.arg[1])>>
           /\ B_matrix = B_expected(ret.arg[1])

\* C2: once compute_effort_matrix has set E, E[n][m] is 1e6 where the
\* weighted service availability W[n][m] = sum_l G[n][l] * S[l][m] is 0
\* and 1 / W[n][m] where it is positive, and E holds no NaN and no Inf.
C2_EffortMatrix ==
    E_matrix # None
        => /\ E_matrix = E_expected
           /\ \A x \in Entries(E_matrix) : IsFinite(x)

\* C3: compute_social_burden on an ability column holding a zero score
\* fails with a division-by-zero error; B_matrix is not set to a matrix
\* holding Inf.  (Stated of the calls that reach the division: E is set
\* and the merged ability column has one row per group.)
C3_Pre ==
    /\ IsCall("compute_social_burden")
    /\ Has(AbilityColumns, ret.arg[1])
    /\ UniqueAbilityKeys
    /\ E_matrix # None
    /\ population_info.merged_data # None
    /\ population_info.merged_data[1] = ret.arg[1]
    /\ \E n \in 1..NGroups : A_of(n, ret.arg[1]) = Zero

C3_ZeroAbilityRaises ==
    C3_Pre
        => /\ ret.status = "ZeroDivisionError"
           /\ (B_matrix = None \/ \A x \in Entries(B_matrix) : ~IsInf(x))

\* C4: each of I, G, E and B is assigned at most once: no call assigns a
\* matrix that was already set when the call began.
C4_AssignedOnce ==
    \A i \in DOMAIN ret.assigned : ret.assigned[i] \notin ret.cached

\* C4 as amended: a call assigns an already set matrix only if it is the
\* matrix of the called method's own stage; the matrices of earlier stages
\* are derived on demand only while they are missing.
OwnMatrix(op) ==
    CASE op = "compute_pairwise_effort" -> "I"
      [] op = "compute_service_accessibility" -> "G"
      [] op = "compute_effort_matrix" -> "E"
      [] op = "compute_social_burden" -> "B"
      [] OTHER -> ""

C4_UpstreamAssignedOnce ==
    \A i \in DOMAIN ret.assigned :
        ret.assigned[i] \in ret.cached => ret.assigned[i] = OwnMatrix(ret.op)

\* an effort-matrix call on a calculator holding I, G and E: it assigns E
\* again and leaves I and G alone
C4_Witness ==
    /\ IsCall("compute_effort_matrix")
    /\ ret.cached = {"I", "G", "E"}
    /\ ret.assigned = <<"E">>

\* C5: while no compute_social_burden call has returned, save_results
\* raises the not-computed error and nothing is ever written; once one
\* has returned, save_results writes the B matrix last computed.
C5_SaveResults ==
    /\ ~burden_ok => csv = None
    /\ (IsCall("save_results") /\ ~burden_ok) => ret.status = "ValueError"
    /\ (IsCall("save_results") /\ burden_ok)
          => Returned /\ B_matrix # None /\ csv = B_matrix

\* save_results after the earlier stages were computed and a
\* compute_social_burden call reached the division and raised
C5_Witness ==
    /\ IsCall("save_results")
    /\ ~burden_ok
    /\ E_matrix # None
    /\ population_info.merged_data # None
    /\ ret.status = "ValueError"

C7_ServiceLevel ==
    IsCall("get_service_level")
        => /\ (InTable(ret.arg[1]) /\ Has(Categories, ret.arg[2]))
                 => /\ Returned
                    /\ ret.value = <<TableCell(ret.arg[1], ret.arg[2])>>
           /\ ~InTable(ret.arg[1]) => ret.status = "KeyError"

\* C8: a table returned by compute_social_burden has one row per
\* population group and one column per service category, labelled with
\* the categories in table order.
C8_ResultShape ==
    (IsCall("compute_social_burden") /\ Returned)
        => /\ ret.value[1] = Categories
           /\ Len(ret.value[2]) = NGroups
           /\ \A n \in DOMAIN ret.value[2] : Len(ret.value[2][n]) = NCategories

\* C9: once a compute_social_burden call has returned, a call with any
\* column of the ability data returns B = E / A of that column.  (Stated
\* for ability data with one row per group, so that A is defined.)
C9_ColumnOfTheCall ==
    (IsCall("compute_social_burden") /\ burden_ok /\ UniqueAbilityKeys
        /\ Has(AbilityColumns, ret.arg[1]))
        => /\ Returned
           /\ B_matrix = [n \in 1..NGroups |->
                             [m \in DOMAIN E_matrix[n] |->
                                 FDiv(E_matrix[n][m], A_of(n, ret.arg[1]))]]

\* C10: B set implies E set, E set implies G set, G set implies I set;
\* and a call on a calculator with no matrix set assigns the matrices in
\* the order I, G, E, B, up to the called stage when it returns.
StageOrder == <<"I", "G", "E", "B">>

StageOf(op) ==
    CASE op = "compute_pairwise_effort" -> 1
      [] op = "compute_service_accessibility" -> 2
      [] op = "compute_effort_matrix" -> 3
      [] op = "compute_social_burden" -> 4
      [] OTHER -> 0

C10_StageOrder ==
    /\ B_matrix # None => E_matrix # None
    /\ E_matrix # None => G_matrix # None
    /\ G_matrix # None => I_matrix # None
    /\ BeganFresh
          => /\ Len(ret.assigned) <= StageOf(ret.op)
             /\ ret.assigned = SubSeq(StageOrder, 1, Len(ret.assigned))
             /\ Returned => Len(ret.assigned) = StageOf(ret.op)

\* compute_social_burden on a fresh calculator, returning with all four
\* matrices set
C10_Witness ==
    /\ IsCall("compute_social_burden")
    /\ BeganFresh
    /\ Returned
    /\ Cached = {"I", "G", "E", "B"}

====
